---- MODULE Spec2Model ----
(***************************************************************************)
(* A model of run_monitor.py: the vehicle monitor of the car-following     *)
(* repository.  Two specifications are given.                              *)
(*                                                                         *)
(*   Spec         one run of main() -> monitor_loop(args): connection,     *)
(*                actor lookup, display set-up, the three sensor monitors, *)
(*                the tick/render/event loop, the frame callbacks and the  *)
(*                teardown block.                                          *)
(*   DisplaySpec  a DisplayManager built with any grid and window size,    *)
(*                on which get_display_size, get_display_offset and        *)
(*                fit_display are called with any argument.                *)
(*                                                                         *)
(* Role names are strings over a small alphabet whose letters are written  *)
(* as words ("hero", "RGBCamera_Driver_Seat", ...); Python's `a in b` on   *)
(* strings is the contiguous-subsequence test Contains(a, b).              *)
(* The fields time_processing / tics_processing of a sensor monitor are    *)
(* statistics that nothing reads; they are left out.                       *)
(***************************************************************************)
EXTENDS Integers, Sequences, FiniteSets, TLC

VARIABLES
    args,            \* the parsed command line (argparser + main line 282)
    world_vehicles,  \* sim_world.get_actors().filter('vehicle.*'), in actor order
    world_sensors,   \* sim_world.get_actors().filter('sensor.*'), in actor order
    pc,              \* position of the main thread in main/monitor_loop
    error,           \* the exception that is propagating, [type, site]
    pygame_up,       \* TRUE between pygame.init() and pygame.quit()
    client,          \* <<>> or <<[host, port]>>: the carla.Client connection
    vehicle,         \* VehicleMonitor.vehicle: <<>> while the attribute is unset, else <<id>>
    vm_sensors,      \* VehicleMonitor.sensors
    display,         \* DisplayManager.display: "None" or "Surface"
    grid_size,       \* DisplayManager.grid_size  <<rows, cols>>
    window_size,     \* DisplayManager.window_size <<W, H>>
    sensor_list,     \* DisplayManager.sensor_list: the SensorMonitorManager objects
    listening,       \* {<<sensor id, monitor number>>}: callbacks passed to sensor.listen
    call_exit,       \* monitor_loop's local call_exit
    polled,          \* the list returned by the last pygame.event.get()
    calls,           \* the last CallWindow calls made by the loop to world / display / event queue
    call,            \* DisplaySpec: the last method called, [op, arg]
    ret              \* DisplaySpec: what it returned

vars == <<args, world_vehicles, world_sensors, pc, error, pygame_up, client, vehicle,
          vm_sensors, display, grid_size, window_size, sensor_list, listening, call_exit, polled, calls, call, ret>>

-----------------------------------------------------------------------------
(* Bounds of the model *)

MaxEvents == 2      \* events returned by one pygame.event.get()
MaxGrid == 3        \* DisplaySpec: rows, cols in 1..MaxGrid
MaxWin == 7         \* DisplaySpec: window width, height in 0..MaxWin
MaxImg == 7         \* DisplaySpec: image width, height in 1..MaxImg
CallWindow == 3     \* how many of the loop's last calls are remembered

-----------------------------------------------------------------------------
(* Inputs *)

Hosts == {"127.0.0.1", "10.0.0.5"}
DefaultPort == 2000
Ports == {DefaultPort, DefaultPort + 1}
RoleNames == {<<"hero">>, <<"npc">>}
Resolutions == {<<5, 4>>}

\* The vehicle actors a world may hold (any subset, in id order).
VehicleCatalogue ==
    << [id |-> 1, role_name |-> <<"npc">>],
       [id |-> 2, role_name |-> <<"hero">>],
       [id |-> 3, role_name |-> <<"hero">>] >>

\* The sensor actors a world may hold (any subset, in id order); image is the
\* width and height of the frames the sensor delivers.
SensorCatalogue ==
    << [id |-> 1, role_name |-> <<"hero", "RGBCamera_Driver_Seat">>, image |-> <<1, 1>>],
       [id |-> 2, role_name |-> <<"hero", "DepthCamera_Bumper">>, image |-> <<2, 1>>],
       [id |-> 3, role_name |-> <<"hero", "DepthCamera_Rear">>, image |-> <<1, 2>>],
       [id |-> 4, role_name |-> <<"npc", "RGBCamera_Driver_Seat", "DepthCamera_Bumper">>,
        image |-> <<4, 4>>] >>

RECURSIVE SelectActors(_, _)
SelectActors(catalogue, ids) ==
    IF catalogue = <<>> THEN <<>>
    ELSE IF Head(catalogue).id \in ids
         THEN <<Head(catalogue)>> \o SelectActors(Tail(catalogue), ids)
         ELSE SelectActors(Tail(catalogue), ids)

Worlds(catalogue) == {SelectActors(catalogue, ids) : ids \in SUBSET (1..Len(catalogue))}

Events ==
    { [type |-> "QUIT", key |-> "none"],
      [type |-> "KEYDOWN", key |-> "K_ESCAPE"],
      [type |-> "KEYDOWN", key |-> "K_q"],
      [type |-> "KEYDOWN", key |-> "K_a"],
      [type |-> "KEYUP", key |-> "K_ESCAPE"] }

EventLists == UNION {[1..n -> Events] : n \in 0..MaxEvents}

NoError == [type |-> "None", site |-> "None"]

-----------------------------------------------------------------------------
(* Python primitives *)

\* a in b, for strings
Contains(a, b) ==
    \E i \in 0..(Len(b) - Len(a)) : \A j \in 1..Len(a) : b[i + j] = a[j]

\* int(a / b) for integers a and b > 0: true division, then truncation toward zero
IntDiv(a, b) == IF a >= 0 THEN a \div b ELSE -((-a) \div b)

\* The outcomes of int(x * (num / den)) in double arithmetic, for x, num >= 0 and
\* den > 0.  When num / den is a dyadic rational the quotient and the product are
\* exact.  Otherwise the quotient is rounded, and a product whose exact value is an
\* integer n may come out just below n and truncate to n - 1 (7 * (61 / 7) gives
\* 60); a product whose exact value is no integer truncates to its floor.
Dyadic(num, den) == \E k \in 0..den : (num * (2 ^ k)) % den = 0

FloatMulInt(x, num, den) ==
    LET p == x * num
    IN  IF p > 0 /\ p % den = 0 /\ ~Dyadic(num, den)
        THEN {p \div den, (p \div den) - 1}
        ELSE {p \div den}

-----------------------------------------------------------------------------
(* class DisplayManager *)

\* A faulty get_display_size: each window side divided by the wrong grid dimension.
get_display_size_swapped ==
    <<IntDiv(window_size[1], grid_size[1]), IntDiv(window_size[2], grid_size[2])>>

\* [int(window_size[0]/grid_size[1]), int(window_size[1]/grid_size[0])]
get_display_size ==
    <<IntDiv(window_size[1], grid_size[2]), IntDiv(window_size[2], grid_size[1])>>

\* A faulty get_display_offset: the row index paired with the cell width.
get_display_offset_swapped(gridPos) ==
    LET dis_size == get_display_size
    IN  <<gridPos[1] * dis_size[1], gridPos[2] * dis_size[2]>>

\* A faulty get_display_offset: grid positions counted from 1.
get_display_offset_one_based(gridPos) ==
    LET dis_size == get_display_size
    IN  <<(gridPos[2] + 1) * dis_size[1], (gridPos[1] + 1) * dis_size[2]>>

\* gridPos is <<row, column>>, counted from 0
get_display_offset(gridPos) ==
    LET dis_size == get_display_size
    IN  <<gridPos[2] * dis_size[1], gridPos[1] * dis_size[2]>>

render_enabled == display # "None"

-----------------------------------------------------------------------------
(* class SensorMonitorManager *)

\* A faulty fit_ratio: the larger of the two ratios.
fit_ratio_max(display_size, image_size) ==
    LET a == <<display_size[1], image_size[1]>>
        b == <<display_size[2], image_size[2]>>
    IN  IF a[1] * b[2] < b[1] * a[2] THEN b ELSE a

\* min(display_size[0] / w, display_size[1] / h) as the fraction <<num, den>>;
\* Python's min keeps its first argument unless the second is smaller.
fit_ratio(display_size, image_size) ==
    LET a == <<display_size[1], image_size[1]>>
        b == <<display_size[2], image_size[2]>>
    IN  IF b[1] * a[2] < a[1] * b[2] THEN b ELSE a

\* The sizes fit_display may give the resized image (the set holds more than one
\* size only where the double product may round below an integer).
fit_display(image_size, stretch) ==
    IF stretch
    THEN {get_display_size}
    ELSE LET ratio == fit_ratio(get_display_size, image_size)
         IN  { <<tw, th>> : tw \in FloatMulInt(image_size[1], ratio[1], ratio[2]),
                            th \in FloatMulInt(image_size[2], ratio[1], ratio[2]) }

\* A faulty FindSensor: the first sensor of the vehicle, whatever its role name.
FindSensor_any(sensors, sensor_role_name) ==
    IF sensors = <<>> THEN <<>> ELSE <<Head(sensors)>>

\* self._sensor after the loop of __init__ (lines 78-83): <<>> for None, else
\* <<the first sensor of vehicle_monitor.sensors whose role name contains the name>>
RECURSIVE FindSensor(_, _)
FindSensor(sensors, sensor_role_name) ==
    IF sensors = <<>> THEN <<>>
    ELSE IF Contains(sensor_role_name, Head(sensors).role_name)
         THEN <<Head(sensors)>>
         ELSE FindSensor(Tail(sensors), sensor_role_name)

\* The three constructions of monitor_loop.
SensorMonitors ==
    << [sensor_role_name |-> <<"RGBCamera_Driver_Seat">>, display_pos |-> <<0, 0>>,
        color_converter |-> "Raw"],
       [sensor_role_name |-> <<"DepthCamera_Bumper">>, display_pos |-> <<0, 1>>,
        color_converter |-> "Raw"],
       [sensor_role_name |-> <<"DepthCamera_Rear">>, display_pos |-> <<1, 0>>,
        color_converter |-> "Depth"] >>

\* The test of init_sensor_monitor: `'RGBCamera' or <anything>` is the non-empty
\* string 'RGBCamera', so the test is true and its right operand is never evaluated.
init_sensor_monitor_test == TRUE

-----------------------------------------------------------------------------
(* class VehicleMonitor *)

\* The loop of __init__ (lines 158-161): <<>> when no vehicle matches and
\* self.vehicle was never assigned, else <<id of the first match>>.
RECURSIVE FindVehicle(_, _)
FindVehicle(vehicles, vehicle_role_name) ==
    IF vehicles = <<>> THEN <<>>
    ELSE IF Head(vehicles).role_name = vehicle_role_name
         THEN <<Head(vehicles).id>>
         ELSE FindVehicle(Tail(vehicles), vehicle_role_name)

\* lines 167-169
RECURSIVE AttachedSensors(_, _)
AttachedSensors(sensors, vehicle_role_name) ==
    IF sensors = <<>> THEN <<>>
    ELSE IF Contains(vehicle_role_name, Head(sensors).role_name)
         THEN <<Head(sensors)>> \o AttachedSensors(Tail(sensors), vehicle_role_name)
         ELSE AttachedSensors(Tail(sensors), vehicle_role_name)

-----------------------------------------------------------------------------
(* monitor_loop *)

\* carla.Client('127.0.0.1', 2000)
ClientHost == "127.0.0.1"
ClientPort == 2000

\* the grid of DisplayManager(grid_size=[2, 2], ...)
GridRows == 2
GridCols == 2

\* A faulty WorldAdvance: tick() whatever the mode.
WorldAdvance_tick(sync) == "tick"

\* lines 255-258
WorldAdvance(sync) == IF sync THEN "tick" ELSE "wait_for_tick"

\* A faulty HandleEvent: the QUIT branch is missing.
HandleEvent_no_quit(event, exit) ==
    IF event.type = "KEYDOWN" /\ event.key \in {"K_ESCAPE", "K_q"}
    THEN [call_exit |-> TRUE, brk |-> TRUE]
    ELSE [call_exit |-> exit, brk |-> FALSE]

\* The body of the for loop, lines 264-269: the new call_exit and whether it breaks.
HandleEvent(event, exit) ==
    IF event.type = "QUIT"
    THEN [call_exit |-> TRUE, brk |-> FALSE]
    ELSE IF event.type = "KEYDOWN"
         THEN IF event.key = "K_ESCAPE" \/ event.key = "K_q"
              THEN [call_exit |-> TRUE, brk |-> TRUE]
              ELSE [call_exit |-> exit, brk |-> FALSE]
         ELSE [call_exit |-> exit, brk |-> FALSE]

\* for event in events: ..., lines 263-269: call_exit after the loop
RECURSIVE ProcessEvents(_, _)
ProcessEvents(events, exit) ==
    IF events = <<>> THEN exit
    ELSE LET h == HandleEvent(Head(events), exit)
         IN  IF h.brk THEN h.call_exit ELSE ProcessEvents(Tail(events), h.call_exit)

\* The loop's call log keeps the last CallWindow calls.
Logged(name) ==
    LET all == Append(calls, name)
    IN  IF Len(all) > CallWindow THEN Tail(all) ELSE all

Raise(type, site) ==
    /\ error' = [type |-> type, site |-> site]
    /\ pc' = "finally"

InTry == pc \in {"connect", "vehicle_monitor", "display_manager", "sensor_monitor",
                 "advance", "render", "poll", "events", "check_exit"}

\* `if self.vehicle is None: raise ValueError(...)`, line 163-164, given what the
\* loop left: reading self.vehicle raises AttributeError when the attribute was
\* never assigned; when it was, it holds an actor and is never None.
VehicleCheck(v) == IF v = <<>> THEN "AttributeError" ELSE "None"

Init ==
    /\ args \in [host : Hosts, port : Ports, sync : BOOLEAN, rolename : RoleNames,
                 res : Resolutions]
    /\ world_vehicles \in Worlds(VehicleCatalogue)
    /\ world_sensors \in Worlds(SensorCatalogue)
    /\ pc = "main"
    /\ error = NoError
    /\ pygame_up = FALSE
    /\ client = <<>>
    /\ vehicle = <<>>
    /\ vm_sensors = <<>>
    /\ display = "None"
    /\ grid_size = <<>>
    /\ window_size = <<>>
    /\ sensor_list = <<>>
    /\ listening = {}
    /\ call_exit = FALSE
    /\ polled = <<>>
    /\ calls = <<>>
    /\ call = [op |-> "none", arg |-> <<>>]
    /\ ret = <<>>

\* main, lines 281-290, and monitor_loop, lines 223-224
Start ==
    /\ pc = "main"
    /\ pygame_up' = TRUE
    /\ pc' = "connect"
    /\ UNCHANGED <<args, world_vehicles, world_sensors, error, client, vehicle, vm_sensors,
                   display, grid_size, window_size, sensor_list, listening, call_exit, polled, calls, call, ret>>

\* lines 228-230
Connect ==
    /\ pc = "connect"
    /\ client' = <<[host |-> ClientHost, port |-> ClientPort]>>
    /\ pc' = "vehicle_monitor"
    /\ UNCHANGED <<args, world_vehicles, world_sensors, error, pygame_up, vehicle,
                   vm_sensors, display, grid_size, window_size, sensor_list, listening,
                   call_exit, polled, calls, call, ret>>

\* lines 228-230 when no server answers within the timeout: get_world raises
ConnectFails ==
    /\ pc = "connect"
    /\ client' = <<[host |-> ClientHost, port |-> ClientPort]>>
    /\ Raise("RuntimeError", "get_world")
    /\ UNCHANGED <<args, world_vehicles, world_sensors, pygame_up, vehicle,
                   vm_sensors, display, grid_size, window_size, sensor_list, listening,
                   call_exit, polled, calls, call, ret>>

\* line 239: VehicleMonitor(sim_world, args.rolename)
ConstructVehicleMonitor ==
    /\ pc = "vehicle_monitor"
    /\ LET v == FindVehicle(world_vehicles, args.rolename)
           e == VehicleCheck(v)
       IN  /\ vehicle' = v
           /\ IF e # "None"
              THEN /\ Raise(e, "VehicleMonitor.__init__")
                   /\ vm_sensors' = <<>>
              ELSE /\ vm_sensors' = AttachedSensors(world_sensors, args.rolename)
                   /\ pc' = "display_manager"
                   /\ error' = error
    /\ UNCHANGED <<args, world_vehicles, world_sensors, pygame_up, client, display,
                   grid_size, window_size, sensor_list, listening, call_exit,
                   polled, calls, call, ret>>

\* line 240: DisplayManager(grid_size=[2, 2], window_size=[args.width, args.height])
ConstructDisplayManager ==
    /\ pc = "display_manager"
    /\ pygame_up' = TRUE
    /\ display' = "Surface"
    /\ grid_size' = <<GridRows, GridCols>>
    /\ window_size' = args.res
    /\ sensor_list' = <<>>
    /\ pc' = "sensor_monitor"
    /\ UNCHANGED <<args, world_vehicles, world_sensors, error, client, vehicle, vm_sensors,
                   listening, call_exit, polled, calls, call, ret>>

\* lines 243-245: the next SensorMonitorManager(...) of the three
ConstructSensorMonitor ==
    /\ pc = "sensor_monitor"
    /\ LET k == Len(sensor_list) + 1
           m == SensorMonitors[k]
           s == FindSensor(vm_sensors, m.sensor_role_name)
       IN  IF init_sensor_monitor_test /\ s = <<>>
           THEN \* None.listen
                /\ Raise("AttributeError", "SensorMonitorManager.init_sensor_monitor")
                /\ UNCHANGED <<sensor_list, listening>>
           ELSE /\ listening' = IF init_sensor_monitor_test
                                THEN listening \cup {<<s[1].id, k>>}
                                ELSE listening
                /\ sensor_list' = Append(sensor_list,
                                         [sensor |-> s, display_pos |-> m.display_pos,
                                          color_converter |-> m.color_converter,
                                          surface |-> <<>>])
                /\ pc' = IF k = Len(SensorMonitors) THEN "advance" ELSE "sensor_monitor"
                /\ error' = error
    /\ UNCHANGED <<args, world_vehicles, world_sensors, pygame_up, client, vehicle,
                   vm_sensors, display, grid_size, window_size, call_exit, polled,
                   calls, call, ret>>

\* process_camera_sensor, lines 101-118, called by the simulator client with a frame
\* of the sensor for monitor k.  PIL's resize rejects an empty target size, and the
\* callback then ends in that error with the surface as it was.
ProcessCameraSensor(k) ==
    /\ pc \notin {"main", "done"}
    /\ k \in 1..Len(sensor_list)
    /\ \E sensor \in {x \in {vm_sensors[i] : i \in 1..Len(vm_sensors)} :
                        <<x.id, k>> \in listening} :
         \E target \in fit_display(sensor.image, FALSE) :
            sensor_list' =
                IF target[1] >= 1 /\ target[2] >= 1 /\ render_enabled
                THEN [sensor_list EXCEPT ![k].surface = target]
                ELSE sensor_list
    /\ UNCHANGED <<args, world_vehicles, world_sensors, pc, error, pygame_up, client,
                   vehicle, vm_sensors, display, grid_size, window_size, listening, call_exit, polled, calls, call, ret>>

\* lines 255-258
Advance ==
    /\ pc = "advance"
    /\ calls' = Logged(WorldAdvance(args.sync))
    /\ pc' = "render"
    /\ UNCHANGED <<args, world_vehicles, world_sensors, error, pygame_up, client, vehicle,
                   vm_sensors, display, grid_size, window_size, sensor_list, listening,
                   call_exit, polled, call, ret>>

\* lines 255-258 when the simulator does not answer within the timeout
AdvanceFails ==
    /\ pc = "advance"
    /\ calls' = Logged(WorldAdvance(args.sync))
    /\ Raise("RuntimeError", "tick")
    /\ UNCHANGED <<args, world_vehicles, world_sensors, pygame_up, client, vehicle,
                   vm_sensors, display, grid_size, window_size, sensor_list, listening,
                   call_exit, polled, call, ret>>

\* line 261 and DisplayManager.render, lines 53-60.  The blits and the flip change
\* the pixels of the window, which the display library owns; of the program's own
\* state they change nothing.
Render ==
    /\ pc = "render"
    /\ calls' = Logged("render")
    /\ pc' = "poll"
    /\ UNCHANGED <<args, world_vehicles, world_sensors, error, pygame_up, client, vehicle,
                   vm_sensors, display, grid_size, window_size, sensor_list, listening,
                   call_exit, polled, call, ret>>

\* line 263: pygame.event.get() returns and empties the event queue
Poll ==
    /\ pc = "poll"
    /\ \E events \in EventLists : polled' = events
    /\ calls' = Logged("poll")
    /\ pc' = "events"
    /\ UNCHANGED <<args, world_vehicles, world_sensors, error, pygame_up, client, vehicle,
                   vm_sensors, display, grid_size, window_size, sensor_list, listening,
                   call_exit, call, ret>>

\* lines 263-272: the for loop over the polled events, then `if call_exit: break`
DrainEvents ==
    /\ pc = "events"
    /\ call_exit' = ProcessEvents(polled, call_exit)
    /\ pc' = IF call_exit' THEN "finally" ELSE "advance"
    /\ UNCHANGED <<args, world_vehicles, world_sensors, error, pygame_up, client, vehicle,
                   vm_sensors, display, grid_size, window_size, sensor_list, listening,
                   polled, calls, call, ret>>

\* Ctrl-C while the main thread is inside the try block
Interrupt ==
    /\ InTry
    /\ Raise("KeyboardInterrupt", "signal")
    /\ UNCHANGED <<args, world_vehicles, world_sensors, pygame_up, client, vehicle,
                   vm_sensors, display, grid_size, window_size, sensor_list, listening,
                   call_exit, polled, calls, call, ret>>

\* lines 276-277, the teardown block; then the exception, if any, leaves
\* monitor_loop (main catches KeyboardInterrupt only, lines 289-292)
Finally ==
    /\ pc = "finally"
    /\ pygame_up' = FALSE
    /\ pc' = "done"
    /\ UNCHANGED <<args, world_vehicles, world_sensors, error, client, vehicle, vm_sensors,
                   display, grid_size, window_size, sensor_list, listening, call_exit, polled, calls, call, ret>>

Next ==
    \/ Start
    \/ Connect
    \/ ConnectFails
    \/ ConstructVehicleMonitor
    \/ ConstructDisplayManager
    \/ ConstructSensorMonitor
    \/ \E k \in 1..Len(SensorMonitors) : ProcessCameraSensor(k)
    \/ Advance
    \/ AdvanceFails
    \/ Render
    \/ Poll
    \/ DrainEvents
    \/ Interrupt
    \/ Finally

Spec == Init /\ [][Next]_vars

-----------------------------------------------------------------------------
(* DisplaySpec: the layout methods on a DisplayManager of any grid and window *)

GridSizes == (1..MaxGrid) \X (1..MaxGrid)
WindowSizes == (0..MaxWin) \X (0..MaxWin)
ImageSizes == (1..MaxImg) \X (1..MaxImg)

\* the valid grid positions <<row, column>> of the display manager
GridPositions == (0..(grid_size[1] - 1)) \X (0..(grid_size[2] - 1))

\* DisplayManager(grid_size, window_size), lines 28-35
DisplayInit ==
    /\ args = [host |-> ClientHost, port |-> ClientPort, sync |-> FALSE,
               rolename |-> <<"hero">>, res |-> <<0, 0>>]
    /\ world_vehicles = <<>>
    /\ world_sensors = <<>>
    /\ pc = "display"
    /\ error = NoError
    /\ pygame_up = TRUE
    /\ client = <<>>
    /\ vehicle = <<>>
    /\ vm_sensors = <<>>
    /\ display = "Surface"
    /\ grid_size \in GridSizes
    /\ window_size \in WindowSizes
    /\ sensor_list = <<>>
    /\ listening = {}
    /\ call_exit = FALSE
    /\ polled = <<>>
    /\ calls = <<>>
    /\ call = [op |-> "none", arg |-> <<>>]
    /\ ret = <<>>

displayFrame == <<args, world_vehicles, world_sensors, error, pygame_up, client,
                  vehicle, vm_sensors, display, grid_size, window_size, sensor_list,
                  listening, call_exit, polled, calls>>

\* One method is called on the display manager and returns.
CallGetDisplaySize ==
    /\ pc = "display"
    /\ call' = [op |-> "get_display_size", arg |-> <<>>]
    /\ ret' = get_display_size
    /\ pc' = "returned"
    /\ UNCHANGED displayFrame

CallGetDisplayOffset(gridPos) ==
    /\ pc = "display"
    /\ call' = [op |-> "get_display_offset", arg |-> gridPos]
    /\ ret' = get_display_offset(gridPos)
    /\ pc' = "returned"
    /\ UNCHANGED displayFrame

CallFitDisplay(image_size, stretch) ==
    /\ pc = "display"
    /\ call' = [op |-> "fit_display", arg |-> <<image_size, stretch>>]
    /\ ret' \in fit_display(image_size, stretch)
    /\ pc' = "returned"
    /\ UNCHANGED displayFrame

DisplayNext ==
    \/ CallGetDisplaySize
    \/ \E gridPos \in GridPositions : CallGetDisplayOffset(gridPos)
    \/ \E image_size \in ImageSizes, stretch \in BOOLEAN : CallFitDisplay(image_size, stretch)

DisplaySpec == DisplayInit /\ [][DisplayNext]_vars

-----------------------------------------------------------------------------
(* Properties of the run of monitor_loop (checked under Spec) *)

IsExitEvent(e) ==
    \/ e.type = "QUIT"
    \/ e.type = "KEYDOWN" /\ e.key \in {"K_ESCAPE", "K_q"}

ExitPolled == \E i \in 1..Len(polled) : IsExitEvent(polled[i])

LastCall == IF calls = <<>> THEN "none" ELSE calls[Len(calls)]

AdvanceCalls == {"tick", "wait_for_tick"}

\* C1: once an event poll has returned a QUIT event or a KEYDOWN of Escape or Q,
\* wherever it stands among the events of that poll, the loop ends in that
\* iteration: the main thread is handling those events or is in (or past) the
\* teardown block, and the poll is still the last call the loop has made: no tick,
\* wait_for_tick or render follows it.
C1_ExitEndsLoop ==
    ExitPolled => /\ pc \in {"events", "finally", "done"}
                  /\ LastCall = "poll"

\* C1 witness: a run that ended without an error after a poll whose first event was
\* QUIT and whose second event was a key-up.
C1_Witness ==
    /\ pc = "done"
    /\ error = NoError
    /\ Len(polled) = 2
    /\ polled[1].type = "QUIT"
    /\ polled[2].type = "KEYUP"
    /\ LastCall = "poll"

\* C2: when monitor_loop has ended, in whatever way, the display library is shut
\* down and every sensor monitor registered with the display manager has had its
\* sensor listener released.
C2_TeardownReleasesAll ==
    pc = "done" =>
        /\ ~pygame_up
        /\ \A k \in 1..Len(sensor_list) :
              \A sensor \in {vm_sensors[i] : i \in 1..Len(vm_sensors)} :
                 <<sensor.id, k>> \notin listening

NoVehicleMatches ==
    \A i \in 1..Len(world_vehicles) : world_vehicles[i].role_name # args.rolename

FirstMatchingVehicle ==
    LET matching == {i \in 1..Len(world_vehicles) :
                        world_vehicles[i].role_name = args.rolename}
        first == CHOOSE i \in matching : \A j \in matching : i <= j
    IN  world_vehicles[first].id

\* C3: constructing VehicleMonitor when no vehicle of the world has the configured
\* role name raises ValueError, also in a world with no vehicle at all, and selects
\* no vehicle; when a vehicle matches, the constructor raises nothing and selects
\* the first matching vehicle.
C3_MissingVehicleValueError ==
    IF NoVehicleMatches
    THEN /\ vehicle = <<>>
         /\ pc \notin {"display_manager", "sensor_monitor", "advance", "render", "poll",
                       "events"}
         /\ error.site = "VehicleMonitor.__init__" => error.type = "ValueError"
    ELSE /\ error.site # "VehicleMonitor.__init__"
         /\ vehicle # <<>> => vehicle[1] = FirstMatchingVehicle

\* C4: the simulator connection is opened to exactly the host and the port given
\* on the command line.
C4_ClientUsesArgs ==
    client # <<>> => client[1] = [host |-> args.host, port |-> args.port]

\* C8: every iteration advances the world, then renders, then polls: a render comes
\* right after one world advance, which itself comes first in the run or right
\* after the poll that followed the previous render; the advance is tick when
\* args.sync is set and wait_for_tick when it is not; and a poll comes right after
\* the render of its iteration.
C8_AdvanceRenderPoll ==
    LET n == Len(calls)
        expected == IF args.sync THEN "tick" ELSE "wait_for_tick"
    IN  /\ \A i \in 1..n : calls[i] \in AdvanceCalls => calls[i] = expected
        /\ \A i \in 1..n : calls[i] = "render" =>
              /\ i >= 2 \/ n = CallWindow
              /\ i >= 2 => calls[i - 1] \in AdvanceCalls
              /\ i >= 3 => calls[i - 2] = "poll"
        /\ \A i \in 1..n : calls[i] = "poll" =>
              /\ i >= 2 \/ n = CallWindow
              /\ i >= 2 => calls[i - 1] = "render"
        /\ \A i \in 2..n : calls[i] \in AdvanceCalls => calls[i - 1] = "poll"
        /\ n >= 1 /\ n < CallWindow => calls[1] \in AdvanceCalls

\* C8 witness: in synchronous mode, the render of a second iteration: the last calls
\* end with poll, tick, render.
C8_Witness ==
    /\ args.sync
    /\ pc = "poll"
    /\ Len(calls) >= 3
    /\ calls[Len(calls) - 2] = "poll"
    /\ calls[Len(calls) - 1] = "tick"
    /\ calls[Len(calls)] = "render"

NoSensorMatches(k) ==
    \A i \in 1..Len(vm_sensors) :
        ~Contains(SensorMonitors[k].sensor_role_name, vm_sensors[i].role_name)

\* C10: every monitor in the display manager's sensor_list is bound to a sensor of
\* the monitored vehicle (its _sensor is not None), one whose role name contains the
\* monitor's sensor role name, and has passed its frame callback to that sensor's
\* listen; and a construction whose sensor role name no sensor of the vehicle
\* contains adds no monitor: it ends in the error raised by init_sensor_monitor
\* (unless Ctrl-C struck first), with sensor_list as the earlier constructions
\* left it.
C10_MonitorsBound ==
    /\ \A k \in 1..Len(sensor_list) :
          /\ sensor_list[k].sensor # <<>>
          /\ \E i \in 1..Len(vm_sensors) : vm_sensors[i] = sensor_list[k].sensor[1]
          /\ Contains(SensorMonitors[k].sensor_role_name,
                      sensor_list[k].sensor[1].role_name)
          /\ <<sensor_list[k].sensor[1].id, k>> \in listening
    /\ \A k \in 1..Len(SensorMonitors) :
          (grid_size # <<>> /\ NoSensorMatches(k)) =>
              /\ Len(sensor_list) < k
              /\ pc \in {"sensor_monitor", "finally", "done"}
              /\ (Len(sensor_list) = k - 1 /\ pc # "sensor_monitor") =>
                    \/ error.type = "KeyboardInterrupt"
                    \/ error = [type |-> "AttributeError",
                                site |-> "SensorMonitorManager.init_sensor_monitor"]

\* C10 witness: two monitors were built, bound and listening, and the third
\* construction found no sensor and failed.
C10_Witness ==
    /\ Len(sensor_list) = 2
    /\ NoSensorMatches(3)
    /\ error.site = "SensorMonitorManager.init_sensor_monitor"
    /\ pc = "done"

-----------------------------------------------------------------------------
(* Properties of the layout methods (checked under DisplaySpec) *)

\* the pixels of the rectangle at offset, of the given size
Pixels(offset, size) ==
    (offset[1]..(offset[1] + size[1] - 1)) \X (offset[2]..(offset[2] + size[2] - 1))

\* C5 as stated: get_display_offset returns x = c * W / cols and y = r * H / rows,
\* each truncated to an integer.
C5_OffsetScaledThenTruncated ==
    call.op = "get_display_offset" =>
        ret = <<IntDiv(call.arg[2] * window_size[1], grid_size[2]),
                IntDiv(call.arg[1] * window_size[2], grid_size[1])>>

\* C5 amended: get_display_offset returns the column index times the truncated
\* cell width and the row index times the truncated cell height:
\* x = c * int(W / cols), y = r * int(H / rows).
C5_OffsetIndexTimesCell ==
    call.op = "get_display_offset" =>
        ret = <<call.arg[2] * (window_size[1] \div grid_size[2]),
                call.arg[1] * (window_size[2] \div grid_size[1])>>

\* C5 witness: an offset was computed for a position with different, non-zero row
\* and column, in a window that the grid divides evenly in neither direction, where
\* truncating before and after the multiplication differ.
C5_Witness ==
    /\ call.op = "get_display_offset"
    /\ call.arg[1] > 0 /\ call.arg[2] > 0 /\ call.arg[1] # call.arg[2]
    /\ window_size[1] % grid_size[2] # 0
    /\ window_size[2] % grid_size[1] # 0
    /\ ret[1] # (call.arg[2] * window_size[1]) \div grid_size[2]
    /\ ret[1] > 0 /\ ret[2] > 0

\* C6: get_display_size returns [W div cols, H div rows]: the width divided by the
\* number of columns and the height by the number of rows, truncated.
C6_DisplaySize ==
    call.op = "get_display_size" =>
        ret = <<window_size[1] \div grid_size[2], window_size[2] \div grid_size[1]>>

\* C6 witness: the size was computed for a grid with different numbers of rows and
\* columns, neither of which divides the window evenly.
C6_Witness ==
    /\ call.op = "get_display_size"
    /\ grid_size[1] # grid_size[2]
    /\ window_size[1] % grid_size[2] # 0
    /\ window_size[2] % grid_size[1] # 0
    /\ ret[1] > 0 /\ ret[2] > 0 /\ ret[1] # ret[2]

\* C7: with stretch=False, the target size fit_display computes for an image of
\* width and height >= 1 is no wider and no higher than the cell.
C7_FitWithinCell ==
    (call.op = "fit_display" /\ ~call.arg[2]) =>
        /\ ret[1] <= get_display_size[1]
        /\ ret[2] <= get_display_size[2]

\* C7 witness: an image wider than the cell and of another aspect ratio was fitted:
\* the target is as wide as the cell and lower than it, and the ratio is a
\* fraction that a double does not hold exactly.
C7_Witness ==
    /\ call.op = "fit_display" /\ ~call.arg[2]
    /\ call.arg[1][1] > get_display_size[1]
    /\ ret[1] = get_display_size[1]
    /\ ret[2] >= 1 /\ ret[2] < get_display_size[2]
    /\ ~Dyadic(get_display_size[1], call.arg[1][1])

\* C9: the cell of every valid grid position, the rectangle at get_display_offset
\* of the size get_display_size, lies inside the window, and shares no pixel with
\* the cell of any other valid grid position.
C9_CellsPartitionWindow ==
    call.op = "get_display_offset" =>
        /\ ret[1] >= 0 /\ ret[2] >= 0
        /\ ret[1] + get_display_size[1] <= window_size[1]
        /\ ret[2] + get_display_size[2] <= window_size[2]
        /\ \A other \in GridPositions \ {call.arg} :
              Pixels(ret, get_display_size)
                \cap Pixels(get_display_offset(other), get_display_size) = {}

\* C9 witness: the offset of the last cell of a grid with several rows and columns
\* and non-empty cells, in a window the grid does not divide evenly.
C9_Witness ==
    /\ call.op = "get_display_offset"
    /\ grid_size[1] >= 2 /\ grid_size[2] >= 2
    /\ call.arg = <<grid_size[1] - 1, grid_size[2] - 1>>
    /\ get_display_size[1] >= 2 /\ get_display_size[2] >= 1
    /\ window_size[1] % grid_size[2] # 0

====
